---- MODULE Spec2Model ----
(***************************************************************************)
(* Model of the SQL fragment generators of includes/generate_coalesce.js   *)
(* and includes/positions_columns.js.  Text is modelled by TLA+ strings,   *)
(* built by concatenation exactly as the template literals and             *)
(* Array.prototype.join build it, and taken apart again by Split when a    *)
(* property is stated.                                                     *)
(***************************************************************************)
EXTENDS Integers, Sequences, FiniteSets, TLC

\* ------------------------------------------------------------------ bounds
MaxCalls  == 2   \* generateCoalesceColumns calls in one run
MaxTables == 2   \* longest tables argument
MaxCols   == 3   \* most rows in INFORMATION_SCHEMA.COLUMNS
MaxWrites == 1   \* caller writes through handed-out references

\* ------------------------------------------------------------- JS values
\* One record shape for every JavaScript value the functions hand back:
\* kind is "array", "string", "function", "object", "undefined" or "throw";
\* owner/key say which object an array reference points to.
JsArray(items, owner, key) ==
  [kind |-> "array", items |-> items, text |-> "", owner |-> owner, key |-> key]

JsString(t) ==
  [kind |-> "string", items |-> <<>>, text |-> t, owner |-> "fresh", key |-> ""]

JsFunction(name) ==
  [kind |-> "function", items |-> <<>>, text |-> "", owner |-> "Object.prototype", key |-> name]

JsObject(name) ==
  [kind |-> "object", items |-> <<>>, text |-> "", owner |-> "Object.prototype", key |-> name]

JsUndefined ==
  [kind |-> "undefined", items |-> <<>>, text |-> "", owner |-> "fresh", key |-> ""]

JsThrow(error) ==
  [kind |-> "throw", items |-> <<>>, text |-> error, owner |-> "fresh", key |-> ""]

\* ToBoolean: undefined is the only falsy value among the kinds above
\* (arrays, even empty ones, functions and objects are truthy).
Truthy(v) == v.kind # "undefined"

\* ------------------------------------------------------------------ text
\* Array.prototype.join(sep) on an array of strings.
RECURSIVE join(_, _)
join(strings, sep) ==
  IF strings = <<>> THEN ""
  ELSE IF Len(strings) = 1 THEN strings[1]
  ELSE strings[1] \o sep \o join(Tail(strings), sep)

\* Array.prototype.reverse, as a pure function
reverse(array) == [i \in 1..Len(array) |-> array[Len(array) + 1 - i]]

\* ------------------------------------------------ generate_coalesce.js
ReferenceTable == "new_stats_rows"

ExclusionSet == {"player_", "source_file"}

\* retrieve() with the NOT IN condition of the query left out.
retrieveWithoutExclusion(informationSchema) ==
  LET keep(row) == row.table_name = ReferenceTable
      rows == SelectSeq(informationSchema, keep)
  IN  [i \in 1..Len(rows) |-> [column_name |-> rows[i].column_name]]

\* The metadata query of retrieve(): the rows of INFORMATION_SCHEMA.COLUMNS
\* with table_name = 'new_stats_rows' AND column_name NOT IN (...), projected
\* on column_name; no ORDER BY, the rows come in the warehouse's order.
retrieve(informationSchema) ==
  LET keep(row) == /\ row.table_name = ReferenceTable
                   /\ row.column_name \notin ExclusionSet
      rows == SelectSeq(informationSchema, keep)
  IN  [i \in 1..Len(rows) |-> [column_name |-> rows[i].column_name]]

\* coalesceStatement with the tables taken last to first.
coalesceStatementReversed(tables, column) ==
  LET qualified == [i \in 1..Len(tables) |-> reverse(tables)[i] \o "." \o column.column_name]
  IN  "COALESCE(" \o join(qualified, ", ") \o ") AS " \o column.column_name

\* `COALESCE(${tables.map(table => `${table}.${column.column_name}`).join(', ')}) AS ${column.column_name}`
coalesceStatement(tables, column) ==
  LET qualified == [i \in 1..Len(tables) |-> tables[i] \o "." \o column.column_name]
  IN  "COALESCE(" \o join(qualified, ", ") \o ") AS " \o column.column_name

\* const coalesceStatements = columns.map(column => ...)
coalesceStatements(tables, columns) ==
  [i \in 1..Len(columns) |-> coalesceStatement(tables, columns[i])]

\* A call that reissues its read once.
schemaReadsRetried(issued) == issued + 2

\* One schema read is issued by a call.
schemaReads(issued) == issued + 1

\* generateCoalesceColumns with a catch around retrieve() that falls back to
\* no columns.
generateCoalesceColumnsSwallowing(tables, readFails, informationSchema) ==
  IF readFails THEN JsString("")
  ELSE JsString(join(coalesceStatements(tables, retrieve(informationSchema)), ",\n"))

\* generateCoalesceColumns with a fallback to every column when the read
\* returns none.
generateCoalesceColumnsStar(tables, readFails, informationSchema) ==
  IF readFails THEN JsThrow("SchemaUnavailable")
  ELSE IF retrieve(informationSchema) = <<>> THEN JsString("*")
  ELSE JsString(join(coalesceStatements(tables, retrieve(informationSchema)), ",\n"))

\* generateCoalesceColumns(tables), given the outcome of its schema read:
\* an exception of retrieve() is not caught and ends the call.
generateCoalesceColumns(tables, readFails, informationSchema) ==
  IF readFails THEN JsThrow("SchemaUnavailable")
  ELSE JsString(join(coalesceStatements(tables, retrieve(informationSchema)), ",\n"))

\* ------------------------------------------------ positions_columns.js
Goalkeeper ==
  << "shot_stopping_saves", "shot_stopping_sota", "shot_stopping_psxg",
     "shot_stopping_ga", "crosses_stp", "crosses_opp", "sweeper_#opa",
     "sweeper_avgdist", "total_cmp%", "goal_kicks_launch%", "minutes" >>

Centerback ==
  << "aerial_duels_won%", "clr_", "int_", "blocks_blocks", "tackles_tkl",
     "tackles_tklw", "minutes" >>

Fullback ==
  << "crosses_crs", "tackles_tkl", "tackles_tklw", "tackles_def_3rd",
     "tackles_mid_3rd", "tackles_att_3rd", "int_", "minutes" >>

Midfielder ==
  << "total_cmp%", "tackles_tkl", "int_", "tackles_mid_3rd", "xag_", "1_3_",
     "minutes" >>

Winger ==
  << "crosses_crs", "xag_", "xa_", "performance_og", "performance_recov",
     "minutes" >>

Striker ==
  << "performance_pkwon", "performance_pkcon", "aerial_duels_won%",
     "aerial_duels_won", "challenges_att_3rd", "ppa_", "minutes" >>

\* The catalog with the shared column left off the last list.
positionColumnsWithoutMinutes ==
  [ Goalkeeper |-> Goalkeeper, Centerback |-> Centerback, Fullback |-> Fullback,
    Midfielder |-> Midfielder, Winger |-> Winger,
    Striker |-> SubSeq(Striker, 1, Len(Striker) - 1) ]

positionColumns ==
  [ Goalkeeper |-> Goalkeeper, Centerback |-> Centerback, Fullback |-> Fullback,
    Midfielder |-> Midfielder, Winger |-> Winger, Striker |-> Striker ]

\* positionColumns is an object literal: its prototype is Object.prototype,
\* whose members a computed property read finds when there is no own property.
ObjectPrototype ==
  [ constructor    |-> JsFunction("constructor"),
    toString       |-> JsFunction("toString"),
    valueOf        |-> JsFunction("valueOf"),
    hasOwnProperty |-> JsFunction("hasOwnProperty"),
    __proto__      |-> JsObject("__proto__") ]

\* positionColumns[position]
propertyRead(catalog, position) ==
  IF position \in DOMAIN catalog THEN JsArray(catalog[position], "catalog", position)
  ELSE IF position \in DOMAIN ObjectPrototype THEN ObjectPrototype[position]
  ELSE JsUndefined

\* getColumnsForPosition handing back a reversed copy of what it found.
getColumnsForPositionReversed(catalog, position) ==
  LET found == propertyRead(catalog, position)
  IN  IF Truthy(found) THEN [found EXCEPT !.items = reverse(@)]
      ELSE JsArray(<<>>, "fresh", "")

\* return positionColumns[position] || [];
getColumnsForPosition(catalog, position) ==
  LET found == propertyRead(catalog, position)
  IN  IF Truthy(found) THEN found ELSE JsArray(<<>>, "fresh", "")

\* return columns.map(col => `${col}`).join(', ');
generatePositionSelect(catalog, position) ==
  LET columns == getColumnsForPosition(catalog, position)
      mapped == [i \in 1..Len(columns.items) |-> "" \o columns.items[i]]
  IN  IF columns.kind = "array"
      THEN JsString(join(mapped, ", "))
      ELSE JsThrow("TypeError")

\* ------------------------------------------------------------ the inputs
Tables == {"s1", "s2"}

TableSeqs == UNION {[1..n -> Tables] : n \in 0..MaxTables}

\* Rows of INFORMATION_SCHEMA.COLUMNS: the reference table with its identity
\* and provenance columns and two statistics, and one column of another table
\* of the same dataset.
SchemaRows ==
  {[table_name |-> ReferenceTable, column_name |-> c] :
      c \in {"player_", "source_file", "xg", "minutes"}}
  \cup {[table_name |-> "old_stats_rows", column_name |-> "legacy"]}

\* A schema lists every (table, column) pair once.
Schemas ==
  {s \in UNION {[1..n -> SchemaRows] : n \in 0..MaxCols} :
      \A i, j \in 1..Len(s) : i # j => s[i] # s[j]}

CatalogLabels == {"Goalkeeper", "Centerback", "Fullback", "Midfielder", "Winger", "Striker"}

Labels == CatalogLabels \cup {"Unknown", "", "goalkeeper", "constructor", "toString", "__proto__"}

PushedColumns == {"goals"}

\* ----------------------------------------------------------------- state
VARIABLES
  informationSchema,  \* the warehouse's INFORMATION_SCHEMA.COLUMNS rows
  reads,              \* schema reads issued so far
  calls,              \* generateCoalesceColumns calls so far
  call,               \* the latest call: function, arguments, the rows its read returned
  current,            \* the schema is still the one the latest read saw
  result,             \* what the latest call handed to its caller
  catalog,            \* the positionColumns object of the loaded module
  writes              \* caller writes through references so far

vars == <<informationSchema, reads, calls, call, current, result, catalog, writes>>

NoCall ==
  [fn |-> "", position |-> "", tables |-> <<>>, readFails |-> FALSE, columns |-> <<>>]

Init ==
  /\ informationSchema \in Schemas
  /\ reads = 0
  /\ calls = 0
  /\ call = NoCall
  /\ current = FALSE
  /\ result = JsUndefined
  /\ catalog = positionColumns
  /\ writes = 0

\* A caller invokes generateCoalesceColumns(tables); the read succeeds or not.
GenerateCoalesceColumns ==
  \E tables \in TableSeqs, readFails \in BOOLEAN :
    /\ calls < MaxCalls
    /\ calls' = calls + 1
    /\ reads' = schemaReads(reads)
    /\ result' = generateCoalesceColumns(tables, readFails, informationSchema)
    /\ call' = [fn |-> "generateCoalesceColumns", position |-> "",
                tables |-> tables, readFails |-> readFails,
                columns |-> IF readFails THEN <<>> ELSE retrieve(informationSchema)]
    /\ current' = TRUE
    /\ UNCHANGED <<informationSchema, catalog, writes>>

\* The warehouse schema changes between calls: a migration of the pipeline
\* adds a column to a table of the dataset ...
AddColumn ==
  \E row \in SchemaRows :
    /\ Len(informationSchema) < MaxCols
    /\ \A i \in 1..Len(informationSchema) : informationSchema[i] # row
    /\ informationSchema' = Append(informationSchema, row)
    /\ current' = FALSE
    /\ UNCHANGED <<reads, calls, call, result, catalog, writes>>

\* ... or drops one.
DropColumn ==
  \E i \in 1..Len(informationSchema) :
    /\ informationSchema' = [j \in 1..(Len(informationSchema) - 1) |->
                               IF j < i THEN informationSchema[j] ELSE informationSchema[j + 1]]
    /\ current' = FALSE
    /\ UNCHANGED <<reads, calls, call, result, catalog, writes>>

\* A caller invokes getColumnsForPosition(position).
GetColumnsForPosition ==
  \E position \in Labels :
    /\ result' = getColumnsForPosition(catalog, position)
    /\ call' = [NoCall EXCEPT !.fn = "getColumnsForPosition", !.position = position]
    /\ UNCHANGED <<informationSchema, reads, calls, current, catalog, writes>>

\* A caller invokes generatePositionSelect(position).
GeneratePositionSelect ==
  \E position \in Labels :
    /\ result' = generatePositionSelect(catalog, position)
    /\ call' = [NoCall EXCEPT !.fn = "generatePositionSelect", !.position = position]
    /\ UNCHANGED <<informationSchema, reads, calls, current, catalog, writes>>

\* The array getColumnsForPosition returned is the catalog's own array when
\* the label is a key: a caller's push on it writes the catalog.
CallerPush ==
  \E col \in PushedColumns :
    /\ writes < MaxWrites
    /\ result.kind = "array"
    /\ writes' = writes + 1
    /\ result' = [result EXCEPT !.items = Append(@, col)]
    /\ catalog' = IF result.owner = "catalog"
                  THEN [catalog EXCEPT ![result.key] = Append(@, col)]
                  ELSE catalog
    /\ UNCHANGED <<informationSchema, reads, calls, call, current>>

\* module.exports.positionColumns is the catalog object itself: a caller's
\* positionColumns[label].pop() writes the catalog.
CallerExportPop ==
  \E label \in DOMAIN catalog :
    /\ writes < MaxWrites
    /\ catalog[label] # <<>>
    /\ writes' = writes + 1
    /\ catalog' = [catalog EXCEPT ![label] = SubSeq(@, 1, Len(@) - 1)]
    /\ result' = IF result.kind = "array" /\ result.owner = "catalog" /\ result.key = label
                 THEN [result EXCEPT !.items = catalog'[label]]
                 ELSE result
    /\ UNCHANGED <<informationSchema, reads, calls, call, current>>

Next ==
  \/ GenerateCoalesceColumns
  \/ AddColumn
  \/ DropColumn
  \/ GetColumnsForPosition
  \/ GeneratePositionSelect

Spec == Init /\ [][Next]_vars

NextAliased ==
  \/ GetColumnsForPosition
  \/ GeneratePositionSelect
  \/ CallerPush
  \/ CallerExportPop

SpecAliased == Init /\ [][NextAliased]_vars

\* ------------------------------------------- reading the emitted text back
\* The least position at which sep occurs in text, 0 when it does not occur.
IndexOf(text, sep) ==
  LET hits == {i \in 1..(Len(text) - Len(sep) + 1) :
                  SubSeq(text, i, i + Len(sep) - 1) = sep}
  IN  IF hits = {} THEN 0 ELSE CHOOSE i \in hits : \A j \in hits : i <= j

Contains(text, sep) == IndexOf(text, sep) # 0

\* The pieces of text between the occurrences of sep.
RECURSIVE Split(_, _)
Split(text, sep) ==
  LET i == IndexOf(text, sep)
  IN  IF i = 0 THEN <<text>>
      ELSE <<SubSeq(text, 1, i - 1)>> \o Split(SubSeq(text, i + Len(sep), Len(text)), sep)

\* The expressions of a fragment: none in the empty text.
Expressions(text) == IF text = "" THEN <<>> ELSE Split(text, ",\n")

\* expression reads COALESCE(t1.c, ..., tn.c) AS c for the tables t1..tn.
IsCoalesceOf(expression, tables, c) ==
  LET head == "COALESCE("
      tail == ") AS " \o c
      args == SubSeq(expression, Len(head) + 1, Len(expression) - Len(tail))
      qualified == Split(args, ", ")
  IN  /\ Len(expression) >= Len(head) + Len(tail)
      /\ SubSeq(expression, 1, Len(head)) = head
      /\ SubSeq(expression, Len(expression) - Len(tail) + 1, Len(expression)) = tail
      /\ Len(qualified) = Len(tables)
      /\ \A j \in 1..Len(tables) : qualified[j] = tables[j] \o "." \o c

\* The alias of every expression of a fragment, in order.
AliasedColumns(text) ==
  LET exprs == Expressions(text)
      alias(e) == LET parts == Split(e, " AS ") IN parts[Len(parts)]
  IN  [i \in 1..Len(exprs) |-> alias(exprs[i])]

\* The columns the reference table has in a schema.
ReferenceColumns(schema) ==
  {schema[i].column_name : i \in {j \in 1..Len(schema) : schema[j].table_name = "new_stats_rows"}}

CoalesceReturned == call.fn = "generateCoalesceColumns" /\ ~call.readFails

\* ---------------------------------------------------------------- claims
\* C1: for a non-empty tables argument and the columns c1..cm the read
\* returned, the text is m expressions in the columns' order separated by
\* ",\n" with no leading or trailing separator, and the expression of c is
\* COALESCE(t1.c, ..., tn.c) AS c with the tables once each in input order.
CoalesceFragmentShape ==
  (CoalesceReturned /\ call.tables # <<>>) =>
    /\ result.kind = "string"
    /\ Len(Expressions(result.text)) = Len(call.columns)
    /\ \A i \in 1..Len(call.columns) :
         IsCoalesceOf(Expressions(result.text)[i], call.tables, call.columns[i].column_name)

CoalesceFragmentShapeWitness ==
  /\ CoalesceReturned
  /\ call.tables = <<"s2", "s1">>
  /\ Len(call.columns) = 2
  /\ result.text = "COALESCE(s2.minutes, s1.minutes) AS minutes,\nCOALESCE(s2.xg, s1.xg) AS xg"

\* C2: the columns aliased in the output are exactly the reference table's
\* columns without player_ and source_file, each once, and the text names
\* neither of the two.
ExclusionExact ==
  (CoalesceReturned /\ current) =>
    LET aliased == AliasedColumns(result.text)
    IN  /\ \A i, j \in 1..Len(aliased) : i # j => aliased[i] # aliased[j]
        /\ {aliased[i] : i \in 1..Len(aliased)}
             = ReferenceColumns(informationSchema) \ {"player_", "source_file"}
        /\ ~Contains(result.text, "player_")
        /\ ~Contains(result.text, "source_file")

ExclusionExactWitness ==
  /\ CoalesceReturned
  /\ current
  /\ {"player_", "source_file", "xg"} \subseteq ReferenceColumns(informationSchema)
  /\ call.tables # <<>>
  /\ AliasedColumns(result.text) = <<"xg">>

\* C3: for a label that is not one of the six keys getColumnsForPosition
\* returns an empty sequence, whatever the string.
UnknownLabelYieldsEmptySequence ==
  (call.fn = "getColumnsForPosition" /\ call.position \notin CatalogLabels) =>
    (result.kind = "array" /\ result.items = <<>>)

\* C4: generatePositionSelect returns the label's column list joined by ", ",
\* the empty text when the list is empty or the label unrecognized, and for
\* Centerback the documented text; it does not fail.
PositionSelectJoinsColumns ==
  (call.fn = "generatePositionSelect") =>
    LET columns == IF call.position \in DOMAIN catalog THEN catalog[call.position] ELSE <<>>
    IN  /\ result.kind = "string"
        /\ columns = <<>> => result.text = ""
        /\ columns # <<>> => Split(result.text, ", ") = columns
        /\ call.position = "Centerback" =>
             result.text = "aerial_duels_won%, clr_, int_, blocks_blocks, tackles_tkl, tackles_tklw, minutes"

\* C5: for a recognized label getColumnsForPosition returns the Catalog's
\* list in the Catalog's order; for Goalkeeper the documented eleven columns.
KnownLabelYieldsCatalogList ==
  (call.fn = "getColumnsForPosition" /\ call.position \in CatalogLabels) =>
    /\ result.kind = "array"
    /\ result.items = catalog[call.position]
    /\ call.position = "Goalkeeper" =>
         result.items = << "shot_stopping_saves", "shot_stopping_sota",
                           "shot_stopping_psxg", "shot_stopping_ga",
                           "crosses_stp", "crosses_opp", "sweeper_#opa",
                           "sweeper_avgdist", "total_cmp%",
                           "goal_kicks_launch%", "minutes" >>

KnownLabelYieldsCatalogListWitness ==
  /\ call.fn = "getColumnsForPosition"
  /\ call.position = "Goalkeeper"
  /\ Len(result.items) = 11
  /\ result.items[1] = "shot_stopping_saves"

\* C6: whatever callers do with the values the calls and the exports hand
\* them, the Catalog maps each label to its list as at load time.
CatalogNeverMutated ==
  /\ DOMAIN catalog = CatalogLabels
  /\ \A label \in CatalogLabels : catalog[label] = positionColumns[label]

\* C7: a failed schema read ends the call with the Schema-Unavailable
\* failure: no text is returned and the read is issued once.
ReadFailureSurfaces ==
  [][(calls' # calls /\ call'.readFails) =>
       /\ result'.kind = "throw"
       /\ result'.text = "SchemaUnavailable"
       /\ reads' = reads + 1]_vars

ReadFailureSurfacesWitness ==
  /\ call.fn = "generateCoalesceColumns"
  /\ call.readFails
  /\ result.kind = "throw"
  /\ reads = 1

\* C8: every call issues one schema read and writes nothing; k calls have
\* issued k reads; as long as the schema is the one the latest call read,
\* that call's output lists the schema's columns, whatever earlier calls read.
OneReadPerCallNoCache ==
  /\ [](/\ reads = calls
        /\ (CoalesceReturned /\ current) =>
             {AliasedColumns(result.text)[i] : i \in 1..Len(AliasedColumns(result.text))}
               = ReferenceColumns(informationSchema) \ {"player_", "source_file"})
  /\ [][calls' # calls =>
          /\ reads' = reads + 1
          /\ current'
          /\ informationSchema' = informationSchema
          /\ catalog' = catalog]_vars

OneReadPerCallNoCacheWitness ==
  /\ calls = 2
  /\ reads = 2
  /\ CoalesceReturned
  /\ current
  /\ ReferenceColumns(informationSchema) = {"xg"}
  /\ result.text = "COALESCE(s1.xg) AS xg"

\* C9: the Catalog's keys are the six labels, and each list holds minutes
\* and at least one other column.
CatalogCoversSixLabels ==
  /\ DOMAIN catalog = {"Goalkeeper", "Centerback", "Fullback", "Midfielder", "Winger", "Striker"}
  /\ \A label \in DOMAIN catalog :
       /\ catalog[label] # <<>>
       /\ \E i \in 1..Len(catalog[label]) : catalog[label][i] = "minutes"
       /\ \E i \in 1..Len(catalog[label]) : catalog[label][i] # "minutes"

CatalogCoversSixLabelsWitness ==
  /\ call.fn = "getColumnsForPosition"
  /\ call.position = "Striker"
  /\ result.owner = "catalog"
  /\ result.items[Len(result.items)] = "minutes"

\* C10: when the read returns no column the result is the empty text for
\* every tables argument, the empty one included.
EmptySchemaYieldsEmptyText ==
  (CoalesceReturned /\ call.columns = <<>>) =>
    (result.kind = "string" /\ result.text = "")

EmptySchemaYieldsEmptyTextWitness ==
  /\ CoalesceReturned
  /\ call.columns = <<>>
  /\ call.tables = <<>>
  /\ result.text = ""
====
